---- MODULE Spec2Model ----
(***************************************************************************)
(* Model of app/src/main/cpp/native-lib.cpp: the three JNI entry points    *)
(*   getOpticalFlowImage, getTextureCoords, getTriangleIndexBuffer.        *)
(* Each entry point is modelled statement by statement; pc holds the       *)
(* source line of the next statement ("L60" = line 60).                    *)
(***************************************************************************)
EXTENDS Integers, Sequences, FiniteSets, TLC

\* ---------------------------------------------------------------- bounds
\* Largest width/height handed to getOpticalFlowImage.
MaxDim == 8
\* Largest width/height handed to the two mesh buffer generators.
MaxGrid == 4
\* Largest absolute constant term of a flow field the estimator returns.
MaxFlow == 1

\* ------------------------------------------------------ float arithmetic
\* A float is an exact fraction <<n, d>> with d > 0 in lowest terms;
\* <<0,0>> is NaN and <<1,0>>, <<-1,0>> are the infinities (IEEE results
\* of dividing by 0.0f).  Rounding is not modelled.
NaN == <<0, 0>>

Abs(n) == IF n < 0 THEN -n ELSE n

Sgn(n) == IF n < 0 THEN -1 ELSE IF n > 0 THEN 1 ELSE 0

RECURSIVE GCD(_, _)
GCD(a, b) == IF b = 0 THEN a ELSE GCD(b, a % b)

Norm(n, d) ==
    IF d = 0 THEN <<Sgn(n), 0>>
    ELSE LET g == GCD(Abs(n), Abs(d))
         IN  <<(Sgn(d) * n) \div g, Abs(d) \div g>>

\* float(k) for an int k.
Float(k) == <<k, 1>>

IsNaN(a) == a = NaN

IsFinite(a) == a[2] > 0

\* a / b on floats.
FDiv(a, b) ==
    IF IsNaN(a) \/ IsNaN(b) THEN NaN
    ELSE IF ~IsFinite(a) /\ ~IsFinite(b) THEN NaN
    ELSE IF ~IsFinite(a) THEN <<a[1] * (IF b[1] < 0 THEN -1 ELSE 1), 0>>
    ELSE IF ~IsFinite(b) THEN <<0, 1>>
    ELSE Norm(a[1] * b[2], a[2] * b[1])

\* a + b on floats.
FAdd(a, b) ==
    IF IsNaN(a) \/ IsNaN(b) THEN NaN
    ELSE IF ~IsFinite(a) /\ ~IsFinite(b)
         THEN (IF a = b THEN a ELSE NaN)
    ELSE IF ~IsFinite(a) THEN a
    ELSE IF ~IsFinite(b) THEN b
    ELSE Norm(a[1] * b[2] + b[1] * a[2], a[2] * b[2])

\* a - b on floats.
FSub(a, b) == FAdd(a, <<-b[1], b[2]>>)

\* a <= b for finite floats.
FLeq(a, b) == a[1] * b[2] <= b[1] * a[2]

\* ------------------------------------------------------------ cv::Mat
\* A Mat header: rows, cols, number of channels, bytes per channel.
MatOf(r, c, cn, esz1) == [rows |-> r, cols |-> c, cn |-> cn, esz1 |-> esz1]

NoMat == MatOf(0, 0, 0, 0)

\* Mat::empty()
MatEmpty(m) == m.rows <= 0 \/ m.cols <= 0

\* Mat::total()
MatTotal(m) == m.rows * m.cols

\* Mat::elemSize()
MatElemSize(m) == m.cn * m.esz1

\* The host arrays whose elements getOpticalFlowImage borrows.
Arrays == {"prevPic", "nextPic", "opticalFlowVertices"}

\* ---------------------------------------------------------------- state
VARIABLES
    fn,             \* entry point being executed ("none" before any call)
    status,         \* "idle", "running", "returned", "exception", "fault"
    pc,             \* source line of the next statement
    called,         \* entry points the host has called so far
    w, h,           \* jint w, jint h of the running call
    acq, rel,       \* per host array: Get...Elements / Release...Elements calls
    img1, img2,     \* Mat views wrapping the borrowed pointers
    img1_small, img2_small, flow_small,
    field,          \* the displacement field the estimator wrote to flow_small
    smallW, smallH, \* int smallW, smallH
    i, j,           \* loop counters of the vertex / UV loops
    vertexBuf,      \* floats written through vectexBuf
    vertexCells,    \* the (j, i) of the iteration that wrote each vertex pair
    flow, angle, hsvImage, rgbImage, rgbaImage,
    returnByteArray,\* length of the returned jbyteArray, -1 for NULL
    textureBuf,     \* floats written through textureBuf
    uvCells,        \* the (j, i) of the iteration that wrote each UV pair
    x, y,           \* loop counters of the index loops
    indices,        \* std::vector<jint> indices
    indexBufferC    \* jints written to the caller's index buffer

hostVars == <<fn, status, pc, called, w, h>>
jniVars == <<acq, rel>>
matVars == <<img1, img2, img1_small, img2_small, flow_small, field,
             flow, angle, hsvImage, rgbImage, rgbaImage, returnByteArray>>
vertexVars == <<smallW, smallH, vertexBuf, vertexCells>>
uvVars == <<textureBuf, uvCells>>
indexVars == <<x, y, indices, indexBufferC>>
vars == <<hostVars, jniVars, matVars, vertexVars, uvVars, indexVars, i, j>>

Init ==
    /\ fn = "none" /\ status = "idle" /\ pc = "none" /\ called = {}
    /\ w = 0 /\ h = 0
    /\ acq = [a \in Arrays |-> 0] /\ rel = [a \in Arrays |-> 0]
    /\ img1 = NoMat /\ img2 = NoMat
    /\ img1_small = NoMat /\ img2_small = NoMat /\ flow_small = NoMat
    /\ field = [a |-> 0, b |-> 0, c |-> 0]
    /\ smallW = 0 /\ smallH = 0 /\ i = 0 /\ j = 0
    /\ vertexBuf = <<>> /\ vertexCells = <<>>
    /\ flow = NoMat /\ angle = NoMat /\ hsvImage = NoMat
    /\ rgbImage = NoMat /\ rgbaImage = NoMat /\ returnByteArray = -1
    /\ textureBuf = <<>> /\ uvCells = <<>>
    /\ x = 0 /\ y = 0 /\ indices = <<>> /\ indexBufferC = <<>>

\* pc advances to line l; nothing else of the host state changes.
Goto(l) == pc' = l /\ UNCHANGED <<fn, status, called, w, h>>

\* The call ends with outcome s.
Finish(s) == status' = s /\ pc' = "done" /\ UNCHANGED <<fn, called, w, h>>

Running(f, l) == fn = f /\ status = "running" /\ pc = l

\* ------------------------------------------- getTriangleIndexBuffer
sizeofJint == 4

\* line 195: y < h - 1
IdxRowCond(yy, hh) == yy < hh - 1

\* Mutant: the inner loop runs to x < w.
MutIdxColCond(xx, ww) == xx < ww

\* line 196: x < w - 1
IdxColCond(xx, ww) == xx < ww - 1

topLeft(xx, yy, ww) == yy * ww + xx

bottomLeft(xx, yy, ww) == (yy + 1) * ww + xx

topRight(xx, yy, ww) == yy * ww + xx + 1

\* Mutant: the lower row is addressed with a stride of w + 1.
MutBottomRight(xx, yy, ww) == (yy + 1) * (ww + 1) + xx + 1

bottomRight(xx, yy, ww) == (yy + 1) * ww + xx + 1

\* Mutant: the first triangle is pushed as (top left, top right, bottom left).
MutQuadIndices(xx, yy, ww) ==
    << topLeft(xx, yy, ww), topRight(xx, yy, ww), bottomLeft(xx, yy, ww),
       topRight(xx, yy, ww), bottomLeft(xx, yy, ww), bottomRight(xx, yy, ww) >>

\* lines 204-211: the six push_back calls for the quad at (x, y).
QuadIndices(xx, yy, ww) ==
    << topLeft(xx, yy, ww), bottomLeft(xx, yy, ww), topRight(xx, yy, ww),
       topRight(xx, yy, ww), bottomLeft(xx, yy, ww), bottomRight(xx, yy, ww) >>

\* memcpy(dst, src, nbytes) of jints: the first nbytes / sizeof(jint) elements.
MemcpyJints(src, nbytes) == SubSeq(src, 1, nbytes \div sizeofJint)

Call_getTriangleIndexBuffer ==
    /\ status = "idle"
    /\ \E ww \in -1 .. MaxGrid, hh \in -1 .. MaxGrid : w' = ww /\ h' = hh
    /\ fn' = "getTriangleIndexBuffer" /\ status' = "running"
    /\ called' = called \cup {"getTriangleIndexBuffer"}
    /\ pc' = "L195"
    /\ y' = 0 /\ x' = 0 /\ indices' = <<>>
    /\ UNCHANGED <<indexBufferC, jniVars, matVars, vertexVars, uvVars, i, j>>

\* line 195: the outer loop's test; enters the inner loop with x = 0.
IdxRow ==
    /\ Running("getTriangleIndexBuffer", "L195")
    /\ IF IdxRowCond(y, h)
       THEN x' = 0 /\ Goto("L196")
       ELSE x' = x /\ Goto("L216")
    /\ UNCHANGED <<y, indices, indexBufferC,
                   jniVars, matVars, vertexVars, uvVars, i, j>>

\* lines 196-212: the inner loop's test and one execution of its body.
IdxQuad ==
    /\ Running("getTriangleIndexBuffer", "L196")
    /\ IF IdxColCond(x, w)
       THEN /\ indices' = indices \o QuadIndices(x, y, w)
            /\ x' = x + 1 /\ y' = y
            /\ Goto("L196")
       ELSE /\ y' = y + 1 /\ x' = x /\ indices' = indices
            /\ Goto("L195")
    /\ UNCHANGED <<indexBufferC, jniVars, matVars, vertexVars, uvVars, i, j>>

\* line 216: memcpy of the vector into the caller's buffer, then return.
IdxCopy ==
    /\ Running("getTriangleIndexBuffer", "L216")
    /\ indexBufferC' = MemcpyJints(indices, Len(indices) * sizeofJint)
    /\ Finish("returned")
    /\ UNCHANGED <<x, y, indices, jniVars, matVars, vertexVars, uvVars, i, j>>

NextIdx == Call_getTriangleIndexBuffer \/ IdxRow \/ IdxQuad \/ IdxCopy

\* ------------------------------------------------- getTextureCoords
\* Mutant: the row loop starts at i = h.
MutTexFirstRow(hh) == hh

\* line 169: int i = h - 1
TexFirstRow(hh) == hh - 1

\* line 169: i >= 0
TexRowCond(ii) == ii >= 0

\* line 170: j < w
TexColCond(jj, ww) == jj < ww

\* Mutant: u is divided by the height.
MutTexU(jj, ww) == FDiv(Float(jj), Float(h))

\* line 171: float(j) / w_f, with w_f = float(w) (line 167)
TexU(jj, ww) == FDiv(Float(jj), Float(ww))

\* line 172: float(i) / h_f, with h_f = float(h) (line 168)
TexV(ii, hh) == FDiv(Float(ii), Float(hh))

\* lines 162-169: entry with arguments (ww, hh); the loop starts at i = h - 1.
EnterTextureCoords(ww, hh) ==
    /\ w' = ww /\ h' = hh /\ i' = TexFirstRow(hh)
    /\ fn' = "getTextureCoords" /\ status' = "running"
    /\ called' = called \cup {"getTextureCoords"}
    /\ pc' = "L169"
    /\ j' = 0 /\ textureBuf' = <<>> /\ uvCells' = <<>>
    /\ UNCHANGED <<jniVars, matVars, vertexVars, indexVars>>

\* The host calls getTextureCoords on its own.
Call_getTextureCoords ==
    /\ status = "idle"
    /\ \E ww \in -1 .. MaxGrid, hh \in -1 .. MaxGrid : EnterTextureCoords(ww, hh)

\* The host builds a mesh: it calls getTextureCoords after getOpticalFlowImage
\* has returned (the vertex buffer of that call stays with the host).
Mesh_getTextureCoords ==
    /\ status = "returned" /\ fn = "getOpticalFlowImage"
    /\ \E ww \in -1 .. MaxGrid, hh \in -1 .. MaxGrid : EnterTextureCoords(ww, hh)

\* line 169: the outer loop's test; enters the inner loop with j = 0.
TexRow ==
    /\ Running("getTextureCoords", "L169")
    /\ IF TexRowCond(i)
       THEN j' = 0 /\ Goto("L170")
       ELSE j' = j /\ Finish("returned")
    /\ UNCHANGED <<i, uvVars, jniVars, matVars, vertexVars, indexVars>>

\* lines 170-173: the inner loop's test and one execution of its body.
TexCell ==
    /\ Running("getTextureCoords", "L170")
    /\ IF TexColCond(j, w)
       THEN /\ textureBuf' = textureBuf \o <<TexU(j, w), TexV(i, h)>>
            /\ uvCells' = Append(uvCells, <<j, i>>)
            /\ j' = j + 1 /\ i' = i
            /\ Goto("L170")
       ELSE /\ i' = i - 1 /\ j' = j
            /\ UNCHANGED uvVars
            /\ Goto("L169")
    /\ UNCHANGED <<jniVars, matVars, vertexVars, indexVars>>

NextTex == Call_getTextureCoords \/ TexRow \/ TexCell

\* ---------------------------------------------- getOpticalFlowImage
FN == "getOpticalFlowImage"

\* The array's elements are borrowed and not yet given back.
Held(a) == acq[a] > rel[a]

\* The displacement fields the external estimator may write to flow_small:
\* (dx, dy) = (c + a*col, c + b*row); a = b = c = 0 is the zero field.
FlowFields == [a : 0 .. 1, b : 0 .. 1, c : -MaxFlow .. MaxFlow]

ZeroField == [a |-> 0, b |-> 0, c |-> 0]

\* flow.at<Vec2f>(row, col) of a Mat holding field f.
MatAt(f, row, col) == <<Float(f.c + f.a * col), Float(f.c + f.b * row)>>

\* lines 20-24: getFlowAt(x, y, flow) reads flow.at<Vec2f>(y, x).
getFlowAt(xx, yy, f) == MatAt(f, yy, xx)

\* Size(w / 2, h / 2) of lines 60-61 and smallW, smallH of lines 73-74.
Half(n) == n \div 2

\* cv::resize(src, dst, Size(cols, rows)): dst has src's type.
ResizeTo(src, cols, rows) == MatOf(rows, cols, src.cn, src.esz1)

\* cv::resize throws when the source or the requested size is empty.
ResizeThrows(src, cols, rows) == MatEmpty(src) \/ cols <= 0 \/ rows <= 0

\* Mutant: the flow row is not inverted.
MutFlowRow(ii, sh) == ii

\* line 83: the flow row read for output row i.
FlowRow(ii, sh) == sh - 1 - ii

\* line 93: float(j) / w2_f - 1.0f + flowX, w2_f = float(smallW / 2) (line 75),
\* flowX = flowAtPoint.x / smallW (line 88).
VertexX(jj, sw, fx) ==
    FAdd(FSub(FDiv(Float(jj), Float(sw \div 2)), Float(1)), FDiv(fx, Float(sw)))

\* line 94: float(i) / h2_f - 1.0f + flowY, h2_f = float(smallH / 2) (line 76),
\* flowY = flowAtPoint.y / smallH (line 89).
VertexY(ii, sh, fy) ==
    FAdd(FSub(FDiv(Float(ii), Float(sh \div 2)), Float(1)), FDiv(fy, Float(sh)))

\* Mutant: the flow is resized back to twice the reduced size.
MutFullSize(m) == <<2 * Half(m.cols), 2 * Half(m.rows)>>

\* line 103: the size the flow is resized back to, img1.size() = (cols, rows).
FullSize(m) == <<m.cols, m.rows>>

\* lines 131-132: rgbImage.convertTo(rgbImage, CV_8UC3).
To8U(m) == MatOf(m.rows, m.cols, m.cn, 1)

flowLocals == <<img1, img2, img1_small, img2_small, flow_small, field,
                flow, angle, hsvImage, rgbImage, rgbaImage, returnByteArray,
                smallW, smallH, vertexBuf, vertexCells, i, j>>

Call_getOpticalFlowImage ==
    /\ status = "idle"
    /\ \E ww \in 0 .. MaxDim, hh \in 0 .. MaxDim : w' = ww /\ h' = hh
    /\ fn' = FN /\ status' = "running" /\ called' = called \cup {FN}
    /\ pc' = "L47"
    /\ UNCHANGED <<jniVars, flowLocals, uvVars, indexVars>>

\* line 47: GetByteArrayElements(prevPic)
GetPrevPic ==
    /\ Running(FN, "L47")
    /\ acq' = [acq EXCEPT !["prevPic"] = @ + 1]
    /\ Goto("L48")
    /\ UNCHANGED <<rel, flowLocals, uvVars, indexVars>>

\* line 48: GetByteArrayElements(nextPic)
GetNextPic ==
    /\ Running(FN, "L48")
    /\ acq' = [acq EXCEPT !["nextPic"] = @ + 1]
    /\ Goto("L51")
    /\ UNCHANGED <<rel, flowLocals, uvVars, indexVars>>

\* lines 51-52: img1, img2 wrap the borrowed pointers (no copy).
WrapMats ==
    /\ Running(FN, "L51")
    /\ img1' = MatOf(h, w, 1, 1)
    /\ img2' = MatOf(h, w, 1, 1)
    /\ Goto("L55")
    /\ UNCHANGED <<jniVars, img1_small, img2_small, flow_small, field,
                   flow, angle, hsvImage, rgbImage, rgbaImage, returnByteArray,
                   vertexVars, i, j, uvVars, indexVars>>

\* Mutant: prevPic is never released.
MutReleasePrevPic ==
    /\ Running(FN, "L55")
    /\ Goto("L56")
    /\ UNCHANGED <<jniVars, flowLocals, uvVars, indexVars>>

\* line 55: ReleaseByteArrayElements(prevPic, prevPicData, 0)
ReleasePrevPic ==
    /\ Running(FN, "L55")
    /\ rel' = [rel EXCEPT !["prevPic"] = @ + 1]
    /\ Goto("L56")
    /\ UNCHANGED <<acq, flowLocals, uvVars, indexVars>>

\* line 56: ReleaseByteArrayElements(nextPic, nextPicData, 0)
ReleaseNextPic ==
    /\ Running(FN, "L56")
    /\ rel' = [rel EXCEPT !["nextPic"] = @ + 1]
    /\ Goto("L60")
    /\ UNCHANGED <<acq, flowLocals, uvVars, indexVars>>

\* The host arrays whose borrowed elements the statement at line l reads
\* (through img1 / img2) or writes (through vectexBuf).
Touches(l) ==
    CASE l = "L60" -> {"prevPic"}
      [] l = "L61" -> {"nextPic"}
      [] l = "L79" -> {}
      [] l = "L80" -> {"opticalFlowVertices"}
      [] OTHER -> {}

\* A library call at line l ends in one of: "ok"; "exception" (cv::Exception
\* or std::bad_alloc, which leaves the call); "fault" when it dereferences a
\* pointer whose array was already released (the read is undefined: it may
\* also go through, on live or on stale bytes).
Outcomes(l, mustThrow) ==
    (IF mustThrow THEN {"exception"} ELSE {"ok", "exception"})
    \cup (IF \E a \in Touches(l) : ~Held(a) THEN {"fault"} ELSE {})

\* line 60: resize(img1, img1_small, Size(w / 2, h / 2))
Resize1 ==
    /\ Running(FN, "L60")
    /\ \E o \in Outcomes("L60", ResizeThrows(img1, Half(w), Half(h))) :
          IF o = "ok"
          THEN img1_small' = ResizeTo(img1, Half(w), Half(h)) /\ Goto("L61")
          ELSE img1_small' = img1_small /\ Finish(o)
    /\ UNCHANGED <<jniVars, img1, img2, img2_small, flow_small, field,
                   flow, angle, hsvImage, rgbImage, rgbaImage, returnByteArray,
                   vertexVars, i, j, uvVars, indexVars>>

\* line 61: resize(img2, img2_small, Size(w / 2, h / 2))
Resize2 ==
    /\ Running(FN, "L61")
    /\ \E o \in Outcomes("L61", ResizeThrows(img2, Half(w), Half(h))) :
          IF o = "ok"
          THEN img2_small' = ResizeTo(img2, Half(w), Half(h)) /\ Goto("L64")
          ELSE img2_small' = img2_small /\ Finish(o)
    /\ UNCHANGED <<jniVars, img1, img2, img1_small, flow_small, field,
                   flow, angle, hsvImage, rgbImage, rgbaImage, returnByteArray,
                   vertexVars, i, j, uvVars, indexVars>>

\* lines 64-67: the estimator writes a CV_32FC2 field of img1_small's size.
CalcFlow ==
    /\ Running(FN, "L64")
    /\ \E o \in Outcomes("L64", FALSE) :
          IF o = "ok"
          THEN /\ flow_small' = MatOf(img1_small.rows, img1_small.cols, 2, 4)
               /\ field' \in FlowFields
               /\ Goto("L70")
          ELSE UNCHANGED <<flow_small, field>> /\ Finish(o)
    /\ UNCHANGED <<jniVars, img1, img2, img1_small, img2_small,
                   flow, angle, hsvImage, rgbImage, rgbaImage, returnByteArray,
                   vertexVars, i, j, uvVars, indexVars>>

\* line 70: GetFloatArrayElements(opticalFlowVertices)
GetVertices ==
    /\ Running(FN, "L70")
    /\ acq' = [acq EXCEPT !["opticalFlowVertices"] = @ + 1]
    /\ Goto("L73")
    /\ UNCHANGED <<rel, flowLocals, uvVars, indexVars>>

\* lines 73-79: smallW, smallH, vectexBuf, and the outer loop's int i.
VertexSetup ==
    /\ Running(FN, "L73")
    /\ smallW' = Half(w) /\ smallH' = Half(h)
    /\ i' = Half(h) - 1 /\ j' = 0
    /\ vertexBuf' = <<>> /\ vertexCells' = <<>>
    /\ Goto("L79")
    /\ UNCHANGED <<jniVars, matVars, uvVars, indexVars>>

\* line 79: the outer loop's test; enters the inner loop with j = 0.
VertexRow ==
    /\ Running(FN, "L79")
    /\ IF i >= 0
       THEN j' = 0 /\ Goto("L80")
       ELSE j' = j /\ Goto("L99")
    /\ UNCHANGED <<i, jniVars, matVars, vertexVars, uvVars, indexVars>>

\* lines 80-95: the inner loop's test and one execution of its body.
VertexCell ==
    /\ Running(FN, "L80")
    /\ IF j < smallW
       THEN LET flowAtPoint == getFlowAt(j, FlowRow(i, smallH), field)
            IN  /\ vertexBuf' = vertexBuf \o
                       << VertexX(j, smallW, flowAtPoint[1]),
                          VertexY(i, smallH, flowAtPoint[2]) >>
                /\ vertexCells' = Append(vertexCells, <<j, i>>)
                /\ j' = j + 1 /\ i' = i
                /\ Goto("L80")
       ELSE /\ i' = i - 1 /\ j' = j
            /\ UNCHANGED <<vertexBuf, vertexCells>>
            /\ Goto("L79")
    /\ UNCHANGED <<jniVars, matVars, smallW, smallH, uvVars, indexVars>>

\* line 99: ReleaseFloatArrayElements(opticalFlowVertices, ..., 0)
ReleaseVertices ==
    /\ Running(FN, "L99")
    /\ rel' = [rel EXCEPT !["opticalFlowVertices"] = @ + 1]
    /\ Goto("L103")
    /\ UNCHANGED <<acq, flowLocals, uvVars, indexVars>>

\* lines 102-103: resize(flow_small, flow, img1.size())
ResizeBack ==
    /\ Running(FN, "L103")
    /\ LET sz == FullSize(img1)
       IN \E o \in Outcomes("L103", ResizeThrows(flow_small, sz[1], sz[2])) :
          IF o = "ok"
          THEN flow' = ResizeTo(flow_small, sz[1], sz[2]) /\ Goto("L107")
          ELSE flow' = flow /\ Finish(o)
    /\ UNCHANGED <<jniVars, img1, img2, img1_small, img2_small, flow_small,
                   field, angle, hsvImage, rgbImage, rgbaImage,
                   returnByteArray, vertexVars, i, j, uvVars, indexVars>>

\* lines 106-114: split, cartToPolar, normalize: angle (and magnitude) are
\* single-channel float Mats of flow's size.
Polar ==
    /\ Running(FN, "L107")
    /\ \E o \in Outcomes("L107", FALSE) :
          IF o = "ok"
          THEN angle' = MatOf(flow.rows, flow.cols, 1, flow.esz1) /\ Goto("L117")
          ELSE angle' = angle /\ Finish(o)
    /\ UNCHANGED <<jniVars, img1, img2, img1_small, img2_small, flow_small,
                   field, flow, hsvImage, rgbImage, rgbaImage,
                   returnByteArray, vertexVars, i, j, uvVars, indexVars>>

\* lines 117-124: merge of three channels of angle's size and type.
MergeHsv ==
    /\ Running(FN, "L117")
    /\ \E o \in Outcomes("L117", FALSE) :
          IF o = "ok"
          THEN /\ hsvImage' = MatOf(angle.rows, angle.cols, 3 * angle.cn, angle.esz1)
               /\ Goto("L128")
          ELSE hsvImage' = hsvImage /\ Finish(o)
    /\ UNCHANGED <<jniVars, img1, img2, img1_small, img2_small, flow_small,
                   field, flow, angle, rgbImage, rgbaImage,
                   returnByteArray, vertexVars, i, j, uvVars, indexVars>>

\* lines 127-132: cvtColor(HSV2BGR), *= 255, convertTo(CV_8UC3).
ToRgb ==
    /\ Running(FN, "L128")
    /\ \E o \in Outcomes("L128", FALSE) :
          IF o = "ok"
          THEN /\ rgbImage' = To8U(MatOf(hsvImage.rows, hsvImage.cols, 3, hsvImage.esz1))
               /\ Goto("L136")
          ELSE rgbImage' = rgbImage /\ Finish(o)
    /\ UNCHANGED <<jniVars, img1, img2, img1_small, img2_small, flow_small,
                   field, flow, angle, hsvImage, rgbaImage,
                   returnByteArray, vertexVars, i, j, uvVars, indexVars>>

\* lines 135-136: cvtColor(rgbImage, rgbaImage, COLOR_BGR2BGRA)
ToRgba ==
    /\ Running(FN, "L136")
    /\ \E o \in Outcomes("L136", FALSE) :
          IF o = "ok"
          THEN /\ rgbaImage' = MatOf(rgbImage.rows, rgbImage.cols, 4, rgbImage.esz1)
               /\ Goto("L139")
          ELSE rgbaImage' = rgbaImage /\ Finish(o)
    /\ UNCHANGED <<jniVars, img1, img2, img1_small, img2_small, flow_small,
                   field, flow, angle, hsvImage, rgbImage,
                   returnByteArray, vertexVars, i, j, uvVars, indexVars>>

\* lines 139-148: NewByteArray(total * elemSize) and SetByteArrayRegion of
\* the same length; NewByteArray returns NULL when the host is out of
\* memory, and SetByteArrayRegion on NULL ends the process.
NewArray ==
    /\ Running(FN, "L139")
    /\ \/ /\ returnByteArray' = MatTotal(rgbaImage) * MatElemSize(rgbaImage)
          /\ Goto("L151")
       \/ /\ returnByteArray' = -1
          /\ Finish("fault")
    /\ UNCHANGED <<jniVars, img1, img2, img1_small, img2_small, flow_small,
                   field, flow, angle, hsvImage, rgbImage, rgbaImage,
                   vertexVars, i, j, uvVars, indexVars>>

\* line 151: return returnByteArray
Return ==
    /\ Running(FN, "L151")
    /\ Finish("returned")
    /\ UNCHANGED <<jniVars, flowLocals, uvVars, indexVars>>

NextFlow ==
    \/ Call_getOpticalFlowImage
    \/ GetPrevPic \/ GetNextPic \/ WrapMats \/ ReleasePrevPic \/ ReleaseNextPic
    \/ Resize1 \/ Resize2 \/ CalcFlow
    \/ GetVertices \/ VertexSetup \/ VertexRow \/ VertexCell \/ ReleaseVertices
    \/ ResizeBack \/ Polar \/ MergeHsv \/ ToRgb \/ ToRgba \/ NewArray \/ Return

\* One call of one entry point ("each operation is a single-shot
\* transformation with no retained state across calls").
Next == NextIdx \/ NextTex \/ NextFlow

Spec == Init /\ [][Next]_vars

\* The host builds the warp mesh: getOpticalFlowImage, then getTextureCoords.
NextMesh == NextFlow \/ Mesh_getTextureCoords \/ TexRow \/ TexCell

SpecMesh == Init /\ [][NextMesh]_vars

\* ================================================================ claims
IdxReturned == fn = "getTriangleIndexBuffer" /\ status = "returned"

TexReturned == fn = "getTextureCoords" /\ status = "returned"

FlowReturned == fn = FN /\ status = "returned"

\* An exit of getOpticalFlowImage: a return, an exception or a fault.
FlowExited == fn = FN /\ status \in {"returned", "exception", "fault"}

\* C1: for W >= 1 and H >= 1, getTriangleIndexBuffer writes exactly
\* 6*(W-1)*(H-1) indices into the caller's index buffer.
C1_IndexCount ==
    (IdxReturned /\ w >= 1 /\ h >= 1)
        => Len(indexBufferC) = 6 * (w - 1) * (h - 1)

C1_Witness == IdxReturned /\ w = 3 /\ h = 4 /\ Len(indexBufferC) = 36

\* C2: every index getTriangleIndexBuffer emits (pushed to the vector or
\* copied to the caller's buffer) lies in [0, W*H).
C2_IndexRange ==
    fn = "getTriangleIndexBuffer" =>
        /\ \A k \in 1 .. Len(indices) : 0 <= indices[k] /\ indices[k] < w * h
        /\ \A k \in 1 .. Len(indexBufferC) :
              0 <= indexBufferC[k] /\ indexBufferC[k] < w * h

C2_Witness ==
    /\ IdxReturned /\ w = 3 /\ h = 3
    /\ \E k \in 1 .. Len(indexBufferC) : indexBufferC[k] = w * h - 1
    /\ \E k \in 1 .. Len(indexBufferC) : indexBufferC[k] = 0

\* The first 24 entries of the W = H = 4 index buffer.
Example4x4 ==
    << 0, 4, 1, 1, 4, 5,  1, 5, 2, 2, 5, 6,
       2, 6, 3, 3, 6, 7,  4, 8, 5, 5, 8, 9 >>

\* C3: cells are emitted in row-major order; the six entries of cell (x, y)
\* start at offset 6*(y*(W-1)+x) and are (topLeft, bottomLeft, topRight,
\* topRight, bottomLeft, bottomRight) with topLeft = y*W+x, bottomLeft =
\* (y+1)*W+x, topRight = y*W+x+1, bottomRight = (y+1)*W+x+1; for W = H = 4
\* the buffer has 54 entries and begins with Example4x4.
C3_IndexLayout ==
    IdxReturned =>
        /\ \A cy \in 0 .. h - 2 : \A cx \in 0 .. w - 2 :
              LET off == 6 * (cy * (w - 1) + cx)
              IN  /\ off + 6 <= Len(indexBufferC)
                  /\ SubSeq(indexBufferC, off + 1, off + 6) =
                       << cy * w + cx, (cy + 1) * w + cx, cy * w + cx + 1,
                          cy * w + cx + 1, (cy + 1) * w + cx,
                          (cy + 1) * w + cx + 1 >>
        /\ (w = 4 /\ h = 4) =>
              /\ Len(indexBufferC) = 54
              /\ SubSeq(indexBufferC, 1, 24) = Example4x4

C3_Witness == IdxReturned /\ w = 4 /\ h = 4 /\ Len(indexBufferC) = 54

\* C4: for W >= 1 and H >= 1, getTextureCoords writes exactly W*H (u, v)
\* pairs, row-major, u = x/W, v = y/H, rows from y = H-1 down to y = 0 and
\* columns x = 0..W-1 within a row; every value lies in [0, 1].
C4_TextureCoords ==
    (TexReturned /\ w >= 1 /\ h >= 1) =>
        /\ Len(textureBuf) = 2 * w * h
        /\ \A k \in 0 .. w * h - 1 :
              LET col == k % w
                  row == (h - 1) - (k \div w)
              IN  /\ textureBuf[2 * k + 1] = Norm(col, w)
                  /\ textureBuf[2 * k + 2] = Norm(row, h)
        /\ \A k \in 1 .. Len(textureBuf) :
              /\ IsFinite(textureBuf[k])
              /\ 0 <= textureBuf[k][1]
              /\ textureBuf[k][1] <= textureBuf[k][2]

C4_Witness ==
    /\ TexReturned /\ w = 3 /\ h = 2
    /\ textureBuf = << <<0, 1>>, <<1, 2>>, <<1, 3>>, <<1, 2>>, <<2, 3>>, <<1, 2>>,
                       <<0, 1>>, <<0, 1>>, <<1, 3>>, <<0, 1>>, <<2, 3>>, <<0, 1>> >>

\* C5: when getTextureCoords is called with the grid of the vertex generator
\* (w/2 by h/2 of the getOpticalFlowImage call), the k-th vertex pair and the
\* k-th UV pair come from the same cell (j, i), for every position k.
C5_Aligned ==
    (TexReturned /\ FN \in called /\ w = smallW /\ h = smallH) =>
        /\ Len(uvCells) = Len(vertexCells)
        /\ 2 * Len(vertexCells) = Len(vertexBuf)
        /\ 2 * Len(uvCells) = Len(textureBuf)
        /\ \A k \in 1 .. Len(vertexCells) : uvCells[k] = vertexCells[k]

C5_Witness ==
    /\ TexReturned /\ FN \in called /\ w = smallW /\ h = smallH
    /\ smallW = 3 /\ smallH = 2 /\ Len(uvCells) = 6

\* C6: vertices are emitted for rows i = smallH-1 down to 0 and columns
\* j = 0..smallW-1; the vertex of (j, i) is (base_x + fx/smallW,
\* base_y + fy/smallH), base_x = j/float(smallW/2) - 1, base_y =
\* i/float(smallH/2) - 1, (fx, fy) the flow at column j and row smallH-1-i;
\* no other factor scales the flow.
C6_VertexFormula ==
    (fn = FN /\ acq["opticalFlowVertices"] = 1 /\ pc # "L73") =>
        /\ smallW = w \div 2 /\ smallH = h \div 2
        /\ Len(vertexBuf) = 2 * Len(vertexCells)
        /\ (FlowReturned => Len(vertexCells) = smallW * smallH)
        /\ \A k \in 0 .. Len(vertexCells) - 1 :
              LET jj == k % smallW
                  ii == (smallH - 1) - (k \div smallW)
                  fx == Float(field.c + field.a * jj)
                  fy == Float(field.c + field.b * (smallH - 1 - ii))
                  base_x == FSub(FDiv(Float(jj), Float(smallW \div 2)), Float(1))
                  base_y == FSub(FDiv(Float(ii), Float(smallH \div 2)), Float(1))
              IN  /\ vertexCells[k + 1] = <<jj, ii>>
                  /\ vertexBuf[2 * k + 1] = FAdd(base_x, FDiv(fx, Float(smallW)))
                  /\ vertexBuf[2 * k + 2] = FAdd(base_y, FDiv(fy, Float(smallH)))

C6_Witness ==
    /\ FlowReturned /\ smallW = 4 /\ smallH = 3
    /\ field = [a |-> 1, b |-> 1, c |-> 0]
    /\ Len(vertexBuf) = 24
    \* first vertex: (j, i) = (0, 2), flow row 0: (-1 + 0/4, 2/1 - 1 + 0/3)
    /\ vertexBuf[1] = <<-1, 1>> /\ vertexBuf[2] = <<1, 1>>
    \* last vertex: (j, i) = (3, 0), flow row 2: (3/2 - 1 + 3/4, -1 + 2/3)
    /\ vertexBuf[23] = <<5, 4>> /\ vertexBuf[24] = <<-1, 3>>

\* C7: whenever getOpticalFlowImage completes, odd w or h included, the
\* returned byte buffer has length exactly w*h*4.
C7_OutputLength == FlowReturned => returnByteArray = w * h * 4

C7_Witness == FlowReturned /\ w = 5 /\ h = 3 /\ returnByteArray = 60

\* C8: on every exit path of getOpticalFlowImage (return, exception, fault)
\* every host array whose elements were acquired has been released exactly
\* once; no array is released more often than it was acquired.
C8_ReleasedOnExit ==
    /\ \A a \in Arrays : rel[a] <= acq[a] /\ acq[a] <= 1
    /\ FlowExited => \A a \in Arrays : rel[a] = acq[a]

C8_Witness ==
    /\ fn = FN /\ status = "exception"
    /\ \A a \in Arrays : acq[a] = 1 /\ rel[a] = 1

\* C9 (as claimed): a statement that reads img1 / img2 or writes through the
\* vertex pointer runs only while the array it touches is held.
C9_TouchWhileHeld ==
    (fn = FN /\ status = "running") => \A a \in Touches(pc) : Held(a)

\* C10 (as claimed): for w >= 2 and h >= 2 and an all-zero flow, exactly
\* 2*(w/2)*(h/2) floats are written and each is well defined and in [-1, 1].
C10_ZeroFlowRange ==
    (FlowReturned /\ w >= 2 /\ h >= 2 /\ field = ZeroField) =>
        /\ Len(vertexBuf) = 2 * (w \div 2) * (h \div 2)
        /\ \A k \in 1 .. Len(vertexBuf) :
              /\ IsFinite(vertexBuf[k])
              /\ FLeq(Float(-1), vertexBuf[k])
              /\ FLeq(vertexBuf[k], Float(1))
====
